---- MODULE Spec2Model ----
(***************************************************************************)
(* Library API: loan / inventory engine (LoansService, BooksService),      *)
(* approval workflow (ApprovalRequestsService and its controller),         *)
(* UsersService and the two queue services.                                *)
(*                                                                         *)
(* Every service method is an async function; each awaited database call   *)
(* is one atomic step of the model, and a db.transaction(...) block is one *)
(* step that either commits all of its statements or rolls all of them     *)
(* back.  A "call" is one invocation of a service method; call slots hold  *)
(* the method's arguments, its local variables and its program position.   *)
(***************************************************************************)
EXTENDS Integers, Sequences, FiniteSets, TLC

\* ------------------------------------------------------------------ bounds
NumBooks  == 2      \* rows of the books table
MaxCopies == 1      \* largest totalCopies of a book in the initial catalog
MaxLoans  == 1      \* rows of the loans table beyond which no borrow starts
NumCalls  == 2      \* service calls that may be in flight together
MaxTime   == 2      \* largest reading of the wall clock
MaxNewBooks == 1    \* books the catalog may gain through BooksService.create

NULL == 0           \* SQL NULL / an absent optional number or timestamp
NoText == "absent"  \* SQL NULL / an absent optional string
Absent == 0 - 1     \* an optional field a request body does not carry

BookIds     == 1..NumBooks
MissingBook == NumBooks + MaxNewBooks + 1    \* an id with no row in books
Isbns       == 1..(NumBooks + MaxNewBooks)   \* well-formed ISBNs
AuthorIds   == {1}                           \* rows of the authors table
CategoryIds == {1}                           \* rows of the categories table
\* due dates a borrower may ask for: the earliest reading of the clock and
\* a date after its last reading
DueDates == {1, MaxTime + 1}
Calls       == 1..NumCalls

NumUsers    == 2    \* registered accounts with role 'user'
NumAdmins   == 1    \* registered accounts with role 'admin'
MaxRequests == 1    \* approval requests ever submitted
MaxAccounts == 1    \* rows of the users table beyond which no sign-up starts
MaxJobs     == 2    \* notification jobs beyond which no user operation starts

Users        == 1..NumUsers
Admins       == (NumUsers + 1)..(NumUsers + NumAdmins)
Accounts     == Users \cup Admins
RequestTypes == {"book_add"}
RequestData  == {"d1", "d2"}
AdminNotes   == {"n1"}
ACalls       == 1..NumCalls

VARIABLES
    books,      \* books table: id -> [copiesAvailable, totalCopies, isActive,
                \*                       isbn]
    loans,      \* loans table: sequence indexed by the serial id
    now,        \* wall clock (new Date())
    calls,      \* LoansService / BooksService calls in flight
    requests,   \* approval_requests table: id -> row, for the rows that exist
    reqSeq,     \* last values of the table's serial sequences
    acalls,     \* approval-request calls (controller + service) in flight
    users,      \* users table: sequence indexed by the serial id
    jobs,       \* notification jobs the queue service has accepted
    ucalls,     \* UsersService calls in flight
    qcall       \* the last call made on the queue services and what the
                \* QueueService and the MockQueueService answered to it

loanVars == <<books, loans, calls>>
apprVars == <<requests, reqSeq, acalls>>
userVars == <<users, jobs, ucalls, qcall>>
vars     == <<books, loans, calls, requests, reqSeq, acalls, now,
              users, jobs, ucalls, qcall>>

\* --------------------------------------------------------------- call slots
\* the body of a catalog call that carries none
NoDto == [isbn |-> Absent, copiesAvailable |-> Absent, totalCopies |-> Absent,
          authorId |-> Absent, categoryId |-> Absent]

IdleCall == [op |-> "none", pc |-> "idle", loanId |-> NULL, bookId |-> NULL,
             seenBook |-> NULL, dueDate |-> NULL, dto |-> NoDto,
             result |-> "none"]

Running(op, pc, loanId, bookId, seenBook) ==
    [op |-> op, pc |-> pc, loanId |-> loanId, bookId |-> bookId,
     seenBook |-> seenBook, dueDate |-> NULL, dto |-> NoDto,
     result |-> "none"]

\* a BooksService.create / update call in flight with its body
RunningBook(op, pc, bookId, dto) ==
    [op |-> op, pc |-> pc, loanId |-> NULL, bookId |-> bookId,
     seenBook |-> NULL, dueDate |-> NULL, dto |-> dto, result |-> "none"]

Done(op, loanId, bookId, result) ==
    [op |-> op, pc |-> "done", loanId |-> loanId, bookId |-> bookId,
     seenBook |-> NULL, dueDate |-> NULL, dto |-> NoDto, result |-> result]

Free(c) == calls[c].pc \in {"idle", "done"}

\* ------------------------------------------------------------ table helpers
LoanIds == 1..Len(loans)

\* insert(loans).values(createLoanDto) at time t: isActive defaults to true,
\* borrowed_at to now(), returned_at has no default
NewLoan(bookId, dueDate, t) ==
    [bookId |-> bookId, isActive |-> TRUE, returnedAt |-> NULL,
     borrowedAt |-> t, dueDate |-> dueDate]

\* update(books).set({copiesAvailable: sql`copies_available - 1`}).where(id = b)
DecrementCopies(bks, b) ==
    IF b \in DOMAIN bks THEN [bks EXCEPT ![b].copiesAvailable = @ - 1] ELSE bks

\* update(books).set({copiesAvailable: sql`copies_available + 1`}).where(id = b)
IncrementCopies(bks, b) ==
    IF b \in DOMAIN bks THEN [bks EXCEPT ![b].copiesAvailable = @ + 1] ELSE bks

\* a return that forgets the timestamp
MarkReturned_NoTimestamp(loan, t) == [loan EXCEPT !.isActive = FALSE]

\* update(loans).set({isActive: false, returnedAt: new Date()})
MarkReturned(loan, t) ==
    [loan EXCEPT !.isActive = FALSE, !.returnedAt = t]

\* the bodies update accepts: of the loan columns kept here an UpdateLoanDto
\* carries bookId only (optional); isActive and returnedAt are not fields of
\* it, so the validation pipe turns a body that names them away
UpdateLoanDto == {NULL} \cup BookIds \cup {MissingBook}

\* update(loans).set({...updateLoanDto}): an absent bookId leaves the column
MergeLoan(loan, bookId) ==
    IF bookId # NULL THEN [loan EXCEPT !.bookId = bookId] ELSE loan

\* update(loans).set({isActive: false}) of LoansService.remove
SoftDeleteLoan(loan) == [loan EXCEPT !.isActive = FALSE]

\* update(books).set({isActive: false}) of BooksService.remove
SoftDeleteBook(bks, b) ==
    IF b \in DOMAIN bks THEN [bks EXCEPT ![b].isActive = FALSE] ELSE bks

\* select from loans where bookId = b and isActive = true
ActiveLoansOf(b) == {i \in LoanIds : loans[i].bookId = b /\ loans[i].isActive}

\* ------------------------------------------------------------------ Init
\* no loan is out yet, so every copy of every book is available
InitBooks ==
    books \in [BookIds -> [copiesAvailable : 0..MaxCopies,
                           totalCopies     : 0..MaxCopies,
                           isActive        : {TRUE},
                           isbn            : BookIds]]
    /\ \A b \in BookIds : /\ books[b].copiesAvailable = books[b].totalCopies
                         /\ books[b].isbn = b

InitLoan ==
    /\ InitBooks
    /\ loans = <<>>
    /\ calls = [c \in Calls |-> IdleCall]

\* --------------------------------------------------- LoansService.create
CreateBegin(c, b, due) ==
    /\ Free(c)
    /\ Len(loans) < MaxLoans
    /\ calls' = [calls EXCEPT ![c] =
          IF b \notin DOMAIN books THEN Done("create", NULL, b, "NotFound")
          ELSE IF books[b].copiesAvailable <= 0
               THEN Done("create", NULL, b, "ResourceExhausted")
               ELSE [Running("create", "txn", NULL, b, NULL)
                        EXCEPT !.dueDate = due]]
    /\ UNCHANGED <<books, loans, now, apprVars, userVars>>

CreateCommit(c) ==
    /\ loans' = Append(loans, NewLoan(calls[c].bookId, calls[c].dueDate, now))
    /\ books' = DecrementCopies(books, calls[c].bookId)
    /\ calls' = [calls EXCEPT ![c] =
                    Done("create", Len(loans) + 1, calls[c].bookId, "ok")]

\* a rollback that keeps the inserted loan row
CreateAbort_KeepsInsert(c) ==
    /\ loans' = Append(loans, NewLoan(calls[c].bookId, calls[c].dueDate, now))
    /\ UNCHANGED books
    /\ calls' = [calls EXCEPT ![c] =
                    Done("create", NULL, calls[c].bookId, "TxError")]

CreateAbort(c) ==
    /\ UNCHANGED <<loans, books>>
    /\ calls' = [calls EXCEPT ![c] =
                    Done("create", NULL, calls[c].bookId, "TxError")]

CreateTxn(c) ==
    /\ calls[c].op = "create" /\ calls[c].pc = "txn"
    /\ (CreateCommit(c) \/ CreateAbort(c))
    /\ UNCHANGED <<now, apprVars, userVars>>

\* ------------------------------------------------ LoansService.returnBook
\* returnBook without the isActive check
ReturnBegin_NoActiveCheck(c, id) ==
    /\ Free(c)
    /\ calls' = [calls EXCEPT ![c] =
          IF id \notin LoanIds THEN Done("returnBook", id, NULL, "NotFound")
          ELSE Running("returnBook", "txn", id, NULL, loans[id].bookId)]
    /\ UNCHANGED <<books, loans, now, apprVars, userVars>>

ReturnBegin(c, id) ==
    /\ Free(c)
    /\ calls' = [calls EXCEPT ![c] =
          IF id \notin LoanIds THEN Done("returnBook", id, NULL, "NotFound")
          ELSE IF ~loans[id].isActive
               THEN Done("returnBook", id, NULL, "InvalidState")
               ELSE Running("returnBook", "txn", id, NULL, loans[id].bookId)]
    /\ UNCHANGED <<books, loans, now, apprVars, userVars>>

ReturnCommit(c) ==
    /\ loans' = [loans EXCEPT ![calls[c].loanId] = MarkReturned(@, now)]
    /\ books' = IncrementCopies(books, calls[c].seenBook)
    /\ calls' = [calls EXCEPT ![c] =
                    Done("returnBook", calls[c].loanId, NULL, "ok")]

ReturnAbort(c) ==
    /\ UNCHANGED <<loans, books>>
    /\ calls' = [calls EXCEPT ![c] =
                    Done("returnBook", calls[c].loanId, NULL, "TxError")]

ReturnTxn(c) ==
    /\ calls[c].op = "returnBook" /\ calls[c].pc = "txn"
    /\ (ReturnCommit(c) \/ ReturnAbort(c))
    /\ UNCHANGED <<now, apprVars, userVars>>

\* ---------------------------------------------------- LoansService.update
\* a test that takes every bookId of the body for a change of book
ChangesBook_AnyBookId(bookId, loanBook) == bookId # NULL

\* updateLoanDto.bookId && updateLoanDto.bookId !== loan.bookId
ChangesBook(bookId, loanBook) == bookId # NULL /\ bookId # loanBook

UpdateBegin(c, id, b) ==
    /\ Free(c)
    /\ calls' = [calls EXCEPT ![c] =
          IF id \notin LoanIds THEN Done("update", id, NULL, "NotFound")
          ELSE IF ChangesBook(b, loans[id].bookId)
               THEN Running("update", "findBook", id, b, loans[id].bookId)
               ELSE Running("update", "write", id, b, loans[id].bookId)]
    /\ UNCHANGED <<books, loans, now, apprVars, userVars>>

UpdateFindBook(c) ==
    /\ calls[c].op = "update" /\ calls[c].pc = "findBook"
    /\ LET b == calls[c].bookId IN
       calls' = [calls EXCEPT ![c] =
          IF b \notin DOMAIN books
          THEN Done("update", calls[c].loanId, NULL, "NotFound")
          ELSE IF books[b].copiesAvailable <= 0
               THEN Done("update", calls[c].loanId, NULL, "ResourceExhausted")
               ELSE [@ EXCEPT !.pc = "txn"]]
    /\ UNCHANGED <<books, loans, now, apprVars, userVars>>

UpdateCommit(c) ==
    /\ books' = DecrementCopies(IncrementCopies(books, calls[c].seenBook),
                                calls[c].bookId)
    /\ loans' = [loans EXCEPT ![calls[c].loanId] = MergeLoan(@, calls[c].bookId)]
    /\ calls' = [calls EXCEPT ![c] =
                    Done("update", calls[c].loanId, NULL, "ok")]

\* a rollback that keeps the old book's credit
UpdateAbort_KeepsCredit(c) ==
    /\ books' = IncrementCopies(books, calls[c].seenBook)
    /\ UNCHANGED loans
    /\ calls' = [calls EXCEPT ![c] =
                    Done("update", calls[c].loanId, NULL, "TxError")]

UpdateAbort(c) ==
    /\ UNCHANGED <<loans, books>>
    /\ calls' = [calls EXCEPT ![c] =
                    Done("update", calls[c].loanId, NULL, "TxError")]

UpdateTxn(c) ==
    /\ calls[c].op = "update" /\ calls[c].pc = "txn"
    /\ (UpdateCommit(c) \/ UpdateAbort(c))
    /\ UNCHANGED <<now, apprVars, userVars>>

UpdateWrite(c) ==
    /\ calls[c].op = "update" /\ calls[c].pc = "write"
    /\ loans' = [loans EXCEPT ![calls[c].loanId] = MergeLoan(@, calls[c].bookId)]
    /\ calls' = [calls EXCEPT ![c] =
                    Done("update", calls[c].loanId, calls[c].bookId, "ok")]
    /\ UNCHANGED <<books, now, apprVars, userVars>>

\* ---------------------------------------------------- LoansService.remove
\* remove without the isActive check
RemoveBegin_NoActiveCheck(c, id) ==
    /\ Free(c)
    /\ calls' = [calls EXCEPT ![c] =
          IF id \notin LoanIds THEN Done("remove", id, NULL, "NotFound")
          ELSE Running("remove", "write", id, NULL, NULL)]
    /\ UNCHANGED <<books, loans, now, apprVars, userVars>>

RemoveBegin(c, id) ==
    /\ Free(c)
    /\ calls' = [calls EXCEPT ![c] =
          IF id \notin LoanIds THEN Done("remove", id, NULL, "NotFound")
          ELSE IF loans[id].isActive
               THEN Done("remove", id, NULL, "InvalidState")
               ELSE Running("remove", "write", id, NULL, NULL)]
    /\ UNCHANGED <<books, loans, now, apprVars, userVars>>

RemoveWrite(c) ==
    /\ calls[c].op = "remove" /\ calls[c].pc = "write"
    /\ loans' = [loans EXCEPT ![calls[c].loanId] = SoftDeleteLoan(@)]
    /\ calls' = [calls EXCEPT ![c] = Done("remove", calls[c].loanId, NULL, "ok")]
    /\ UNCHANGED <<books, now, apprVars, userVars>>

\* ---------------------------------------------------- BooksService.remove
RemoveBookBegin(c, b) ==
    /\ Free(c)
    /\ calls' = [calls EXCEPT ![c] =
          IF b \notin DOMAIN books THEN Done("removeBook", NULL, b, "NotFound")
          ELSE Running("removeBook", "findLoans", NULL, b, NULL)]
    /\ UNCHANGED <<books, loans, now, apprVars, userVars>>

\* remove of a book without the look at its active loans
RemoveBookFindLoans_NoLoanCheck(c) ==
    /\ calls[c].op = "removeBook" /\ calls[c].pc = "findLoans"
    /\ calls' = [calls EXCEPT ![c] = [@ EXCEPT !.pc = "write"]]
    /\ UNCHANGED <<books, loans, now, apprVars, userVars>>

RemoveBookFindLoans(c) ==
    /\ calls[c].op = "removeBook" /\ calls[c].pc = "findLoans"
    /\ calls' = [calls EXCEPT ![c] =
          IF ActiveLoansOf(calls[c].bookId) # {}
          THEN Done("removeBook", NULL, calls[c].bookId, "Conflict")
          ELSE [@ EXCEPT !.pc = "write"]]
    /\ UNCHANGED <<books, loans, now, apprVars, userVars>>

RemoveBookWrite(c) ==
    /\ calls[c].op = "removeBook" /\ calls[c].pc = "write"
    /\ books' = SoftDeleteBook(books, calls[c].bookId)
    /\ calls' = [calls EXCEPT ![c] = Done("removeBook", NULL, calls[c].bookId, "ok")]
    /\ UNCHANGED <<loans, now, apprVars, userVars>>

\* ---------------------------------------------------- BooksService.create
\* the bodies the validation pipe lets through as a CreateBookDto: every
\* field is required, the two counts are integers >= 0 checked one by one
CreateBookDto ==
    [isbn : Isbns, copiesAvailable : 0..MaxCopies, totalCopies : 0..MaxCopies,
     authorId : AuthorIds \cup {Cardinality(AuthorIds) + 1},
     categoryId : CategoryIds \cup {Cardinality(CategoryIds) + 1}]

\* select from books where isbn = i (and id != except)
BooksWithIsbn(i, except) ==
    {b \in DOMAIN books \ {except} : books[b].isbn = i}

\* insert(books).values(createBookDto): isActive defaults to true
NewBook(dto) ==
    [copiesAvailable |-> dto.copiesAvailable, totalCopies |-> dto.totalCopies,
     isActive |-> TRUE, isbn |-> dto.isbn]

\* the duplicate-ISBN select, then authorsService.findOne and
\* categoriesService.findOne (tables nothing here writes)
BookCreateBegin(c, dto) ==
    /\ Free(c)
    /\ Cardinality(DOMAIN books) < NumBooks + MaxNewBooks
    /\ calls' = [calls EXCEPT ![c] =
          IF BooksWithIsbn(dto.isbn, NULL) # {}
          THEN Done("createBook", NULL, NULL, "BadRequest")
          ELSE IF dto.authorId \notin AuthorIds
                  \/ dto.categoryId \notin CategoryIds
          THEN Done("createBook", NULL, NULL, "NotFound")
          ELSE RunningBook("createBook", "insert", NULL, dto)]
    /\ UNCHANGED <<books, loans, now, apprVars, userVars>>

\* the insert; the unique index on isbn turns a duplicate away
BookCreateInsert(c) ==
    /\ calls[c].op = "createBook" /\ calls[c].pc = "insert"
    /\ LET id == Cardinality(DOMAIN books) + 1
       IN  IF BooksWithIsbn(calls[c].dto.isbn, NULL) # {}
           THEN /\ calls' = [calls EXCEPT ![c] =
                               Done("createBook", NULL, NULL, "Error")]
                /\ UNCHANGED books
           ELSE /\ books' = [b \in DOMAIN books \cup {id} |->
                               IF b = id THEN NewBook(calls[c].dto)
                               ELSE books[b]]
                /\ calls' = [calls EXCEPT ![c] =
                               Done("createBook", NULL, id, "ok")]
    /\ UNCHANGED <<loans, now, apprVars, userVars>>

\* ---------------------------------------------------- BooksService.update
\* the bodies update accepts: the fields of a CreateBookDto, each optional
UpdateBookDto ==
    [isbn : {Absent} \cup Isbns,
     copiesAvailable : {Absent} \cup 0..MaxCopies,
     totalCopies : {Absent} \cup 0..MaxCopies,
     authorId : {Absent} \cup AuthorIds \cup {Cardinality(AuthorIds) + 1},
     categoryId : {Absent} \cup CategoryIds
                           \cup {Cardinality(CategoryIds) + 1}]

\* the fields a body carries
FieldsOf(dto) == {f \in DOMAIN dto : dto[f] # Absent}

\* the bodies sent here: a PATCH of at most one field
PatchBodies == {dto \in UpdateBookDto : Cardinality(FieldsOf(dto)) <= 1}

\* update(books).set({...updateBookDto}): an absent field leaves its column
MergeBook(row, dto) ==
    [row EXCEPT
       !.isbn = IF dto.isbn # Absent THEN dto.isbn ELSE @,
       !.copiesAvailable =
           IF dto.copiesAvailable # Absent THEN dto.copiesAvailable ELSE @,
       !.totalCopies =
           IF dto.totalCopies # Absent THEN dto.totalCopies ELSE @]

BookUpdateBegin(c, b, dto) ==
    /\ Free(c)
    /\ calls' = [calls EXCEPT ![c] =
          IF b \notin DOMAIN books THEN Done("updateBook", NULL, b, "NotFound")
          ELSE RunningBook("updateBook", "validate", b, dto)]
    /\ UNCHANGED <<books, loans, now, apprVars, userVars>>

\* the duplicate-ISBN select, then the author and category look-ups, each
\* made only for a field the body carries
BookUpdateValidate(c) ==
    /\ calls[c].op = "updateBook" /\ calls[c].pc = "validate"
    /\ LET dto == calls[c].dto
           b   == calls[c].bookId
       IN  calls' = [calls EXCEPT ![c] =
             IF dto.isbn # Absent /\ BooksWithIsbn(dto.isbn, b) # {}
             THEN Done("updateBook", NULL, b, "BadRequest")
             ELSE IF \/ dto.authorId # Absent /\ dto.authorId \notin AuthorIds
                     \/ dto.categoryId # Absent
                          /\ dto.categoryId \notin CategoryIds
             THEN Done("updateBook", NULL, b, "NotFound")
             ELSE [@ EXCEPT !.pc = "write"]]
    /\ UNCHANGED <<books, loans, now, apprVars, userVars>>

\* the update; the unique index on isbn turns a duplicate away
BookUpdateWrite(c) ==
    /\ calls[c].op = "updateBook" /\ calls[c].pc = "write"
    /\ LET dto == calls[c].dto
           b   == calls[c].bookId
       IN  IF dto.isbn # Absent /\ BooksWithIsbn(dto.isbn, b) # {}
           THEN /\ calls' = [calls EXCEPT ![c] =
                               Done("updateBook", NULL, b, "Error")]
                /\ UNCHANGED books
           ELSE /\ books' = [books EXCEPT ![b] = MergeBook(@, dto)]
                /\ calls' = [calls EXCEPT ![c] =
                               Done("updateBook", NULL, b, "ok")]
    /\ UNCHANGED <<loans, now, apprVars, userVars>>

\* ------------------------------------------------------------- wall clock
Tick ==
    /\ now < MaxTime
    /\ now' = now + 1
    /\ UNCHANGED <<loanVars, apprVars, userVars>>

\* =================================================== approval workflow
IdleACall == [op |-> "none", pc |-> "idle", reqId |-> NULL, caller |-> NULL,
              userId |-> NULL, data |-> NoText, notes |-> NoText, result |-> "none"]

ARunning(op, pc, id, caller, userId, data, notes) ==
    [op |-> op, pc |-> pc, reqId |-> id, caller |-> caller,
     userId |-> userId, data |-> data, notes |-> notes, result |-> "none"]

ADone(op, id, result) ==
    [op |-> op, pc |-> "done", reqId |-> id, caller |-> NULL,
     userId |-> NULL, data |-> NoText, notes |-> NoText, result |-> result]

AFree(c) == acalls[c].pc \in {"idle", "done"}

IsAdmin(caller) == caller \in Admins

\* approvalRequestsService.findOne: the row, if it exists
Exists(id) == id \in DOMAIN requests

\* insert(approvalRequests).values(dto): status defaults to 'pending';
\* admin_id and resource_id are serial columns, so an omitted value is
\* filled from the column's sequence; processed_at and admin_notes have no
\* default
NewRequest(userId, type, resourceId, data, seq) ==
    [userId      |-> userId,
     requestType |-> type,
     resourceId  |-> IF resourceId = NULL THEN seq.resourceId + 1 ELSE resourceId,
     requestData |-> data,
     status      |-> "pending",
     adminId     |-> seq.adminId + 1,
     adminNotes  |-> NoText,
     processedAt |-> NULL]

\* nextval of the sequences an insert draws from
NextSeq(seq, resourceId) ==
    [id         |-> seq.id + 1,
     adminId    |-> seq.adminId + 1,
     resourceId |-> IF resourceId = NULL THEN seq.resourceId + 1
                    ELSE seq.resourceId]

\* update(approvalRequests).set({status, adminId, adminNotes, processedAt}):
\* an undefined adminNotes leaves the column as it is
Decide(req, status, adminId, notes, t) ==
    [req EXCEPT !.status = status, !.adminId = adminId,
                !.adminNotes = IF notes = NoText THEN @ ELSE notes,
                !.processedAt = t]

\* the bodies update accepts: an UpdateApprovalRequestDto carries the
\* properties of CreateApprovalRequestDto, each optional (userId and
\* requestData are kept here); status, adminId and processedAt are not
\* among them
UpdateApprovalRequestDto ==
    [userId : {NULL} \cup Users, requestData : {NoText} \cup RequestData]

\* update(approvalRequests).set({...updateApprovalRequestDto})
MergeRequest(req, userId, data) ==
    [req EXCEPT !.userId = IF userId = NULL THEN @ ELSE userId,
                !.requestData = IF data = NoText THEN @ ELSE data]

\* delete(approvalRequests).where(id = id)
DeleteRow(reqs, id) == [i \in DOMAIN reqs \ {id} |-> reqs[i]]

InitAppr ==
    /\ requests = <<>>
    /\ reqSeq = [id |-> 0, adminId |-> 0, resourceId |-> 0]
    /\ acalls = [c \in ACalls |-> IdleACall]

\* ------------- ApprovalRequestsController.create + service.create (submit)
Submit(c, caller, userId, type, resourceId, data) ==
    /\ AFree(c)
    /\ reqSeq.id < MaxRequests
    /\ LET owner == IF IsAdmin(caller) THEN userId ELSE caller IN
       /\ requests' = [i \in DOMAIN requests \cup {reqSeq.id + 1} |->
                         IF i = reqSeq.id + 1
                         THEN NewRequest(owner, type, resourceId, data, reqSeq)
                         ELSE requests[i]]
       /\ reqSeq' = NextSeq(reqSeq, resourceId)
       /\ acalls' = [acalls EXCEPT ![c] = ADone("create", reqSeq.id + 1, "ok")]
    /\ UNCHANGED <<now, loanVars, userVars>>

\* values of a status property a caller may put in the body of a submit
SuppliedStatus == {"approved", "closed"}

\* a validation pipe that lets a status property of the body through to
\* insert(approvalRequests).values(dto)
SubmitRefused_StoresStatus(c, caller, status) ==
    /\ AFree(c)
    /\ reqSeq.id < MaxRequests
    /\ requests' = [i \in DOMAIN requests \cup {reqSeq.id + 1} |->
                      IF i = reqSeq.id + 1
                      THEN [NewRequest(caller, "book_add", NULL, "d1", reqSeq)
                               EXCEPT !.status = status]
                      ELSE requests[i]]
    /\ reqSeq' = NextSeq(reqSeq, NULL)
    /\ acalls' = [acalls EXCEPT ![c] = ADone("create", reqSeq.id + 1, "ok")]
    /\ UNCHANGED <<now, loanVars, userVars>>

\* ValidationPipe({whitelist, forbidNonWhitelisted}) on the body of a
\* submit: status is not a property of CreateApprovalRequestDto, so a body
\* that names it is answered 400 before the controller runs
SubmitRefused(c, caller, status) ==
    /\ AFree(c)
    /\ reqSeq.id < MaxRequests
    /\ acalls' = [acalls EXCEPT ![c] = ADone("create", NULL, "BadRequest")]
    /\ UNCHANGED <<requests, reqSeq, now, loanVars, userVars>>

\* ----------------------------------- controller.approve / service.approve
\* and controller.reject / service.reject; op is "approve" or "reject"
DecisionStatus(op) == IF op = "approve" THEN "approved" ELSE "rejected"

\* approve / reject without the pending check
DecideBegin_NoPendingCheck(c, op, caller, id, notes) ==
    /\ AFree(c)
    /\ acalls' = [acalls EXCEPT ![c] =
          IF ~IsAdmin(caller) THEN ADone(op, id, "Forbidden")
          ELSE IF ~Exists(id) THEN ADone(op, id, "NotFound")
          ELSE ARunning(op, "write", id, caller, NULL, NoText, notes)]
    /\ UNCHANGED <<requests, reqSeq, now, loanVars, userVars>>

DecideBegin(c, op, caller, id, notes) ==
    /\ AFree(c)
    /\ acalls' = [acalls EXCEPT ![c] =
          IF ~IsAdmin(caller) THEN ADone(op, id, "Forbidden")
          ELSE IF ~Exists(id) THEN ADone(op, id, "NotFound")
          ELSE IF requests[id].status # "pending"
               THEN ADone(op, id, "InvalidState")
               ELSE ARunning(op, "write", id, caller, NULL, NoText, notes)]
    /\ UNCHANGED <<requests, reqSeq, now, loanVars, userVars>>

DecideWrite(c) ==
    /\ acalls[c].op \in {"approve", "reject"} /\ acalls[c].pc = "write"
    /\ LET id == acalls[c].reqId IN
       requests' = IF Exists(id)
                   THEN [requests EXCEPT ![id] =
                           Decide(@, DecisionStatus(acalls[c].op),
                                  acalls[c].caller, acalls[c].notes, now)]
                   ELSE requests
    /\ acalls' = [acalls EXCEPT ![c] =
                     ADone(acalls[c].op, acalls[c].reqId, "ok")]
    /\ UNCHANGED <<reqSeq, now, loanVars, userVars>>

\* ------------------------ controller.update / remove: the ownership check
\* op is "update" or "remove"; an admin skips the check. A caller who is not
\* the owner is answered with throw new Error(...), which is no HttpException:
\* the result "Error" (the framework's 500), not "Forbidden"
OwnerBegin(c, op, caller, id, userId, data) ==
    /\ AFree(c)
    /\ acalls' = [acalls EXCEPT ![c] =
          IF IsAdmin(caller)
          THEN ARunning(op, "find", id, NULL, userId, data, NoText)
          ELSE IF ~Exists(id) THEN ADone(op, id, "NotFound")
          ELSE IF requests[id].userId # caller
               THEN ADone(op, id, "Error")
               ELSE ARunning(op, "find", id, NULL, userId, data, NoText)]
    /\ UNCHANGED <<requests, reqSeq, now, loanVars, userVars>>

\* update / remove without the pending check
OwnerFind_NoPendingCheck(c) ==
    /\ acalls[c].op \in {"update", "remove"} /\ acalls[c].pc = "find"
    /\ LET id == acalls[c].reqId IN
       acalls' = [acalls EXCEPT ![c] =
          IF ~Exists(id) THEN ADone(@.op, id, "NotFound")
          ELSE [@ EXCEPT !.pc = "write"]]
    /\ UNCHANGED <<requests, reqSeq, now, loanVars, userVars>>

\* service.update / service.remove: findOne and the status check
OwnerFind(c) ==
    /\ acalls[c].op \in {"update", "remove"} /\ acalls[c].pc = "find"
    /\ LET id == acalls[c].reqId IN
       acalls' = [acalls EXCEPT ![c] =
          IF ~Exists(id) THEN ADone(@.op, id, "NotFound")
          ELSE IF requests[id].status # "pending"
               THEN ADone(@.op, id, "InvalidState")
               ELSE [@ EXCEPT !.pc = "write"]]
    /\ UNCHANGED <<requests, reqSeq, now, loanVars, userVars>>

UpdateRequestWrite(c) ==
    /\ acalls[c].op = "update" /\ acalls[c].pc = "write"
    /\ LET id == acalls[c].reqId IN
       requests' = IF Exists(id)
                   THEN [requests EXCEPT ![id] =
                           MergeRequest(@, acalls[c].userId, acalls[c].data)]
                   ELSE requests
    /\ acalls' = [acalls EXCEPT ![c] =
                     ADone("update", acalls[c].reqId, "ok")]
    /\ UNCHANGED <<reqSeq, now, loanVars, userVars>>

RemoveRequestWrite(c) ==
    /\ acalls[c].op = "remove" /\ acalls[c].pc = "write"
    /\ requests' = DeleteRow(requests, acalls[c].reqId)
    /\ acalls' = [acalls EXCEPT ![c] =
                     ADone("remove", acalls[c].reqId, "ok")]
    /\ UNCHANGED <<reqSeq, now, loanVars, userVars>>

\* ============================================================ UsersService
Emails == {"e1", "e2"}

IdleUCall == [op |-> "none", pc |-> "idle", userId |-> NULL, email |-> NoText,
              role |-> NoText, status |-> NoText, queueFailed |-> FALSE,
              result |-> "none"]

URunning(op, pc, userId, email, role, status) ==
    [op |-> op, pc |-> pc, userId |-> userId, email |-> email,
     role |-> role, status |-> status, queueFailed |-> FALSE,
     result |-> "none"]

UDone(op, userId, queueFailed, result) ==
    [op |-> op, pc |-> "done", userId |-> userId, email |-> NoText,
     role |-> NoText, status |-> NoText, queueFailed |-> queueFailed,
     result |-> result]

UFree(c) == ucalls[c].pc \in {"idle", "done"}

UserIds == 1..Len(users)

\* insert(users).values({...dto, role: dto.role || 'user',
\* status: dto.status || 'pending'})
NewUser(email, role, status) ==
    [email     |-> email,
     role      |-> IF role = NoText THEN "user" ELSE role,
     status    |-> IF status = NoText THEN "pending" ELSE status,
     authToken |-> FALSE]

\* createMockJob(type, data) of the queue service; loanId and wasOverdue are
\* the data of the loan notifications, which no user notification carries
NewJob(type, userId, status) ==
    [type |-> type, userId |-> userId, status |-> status,
     loanId |-> NULL, wasOverdue |-> FALSE, removed |-> FALSE]

\* the notification each operation asks the queue for
JobOf(op, userId) ==
    IF op = "createUser" THEN NewJob("welcome-email", userId, NoText)
    ELSE IF op = "activateUser"
         THEN NewJob("account-status", userId, "activated")
         ELSE NewJob("account-status", userId, "suspended")

\* the status activateUser / suspendUser writes
TargetStatus(op) == IF op = "activateUser" THEN "active" ELSE "suspended"

\* no call has been made on the queue services
NoQCall == [method |-> "none", real |-> "none", mock |-> "none"]

InitUser ==
    /\ users = <<>>
    /\ jobs = <<>>
    /\ ucalls = [c \in Calls |-> IdleUCall]
    /\ qcall = NoQCall

\* ------------------------------------------------------ UsersService.create
UserCreateBegin(c, email, role, status) ==
    /\ UFree(c)
    /\ Len(jobs) < MaxJobs
    /\ Len(users) < MaxAccounts \/ \E i \in UserIds : users[i].email = email
    /\ ucalls' = [ucalls EXCEPT ![c] =
          IF \E i \in UserIds : users[i].email = email
          THEN UDone("createUser", NULL, FALSE, "Conflict")
          ELSE URunning("createUser", "insert", NULL, email, role, status)]
    /\ UNCHANGED <<users, jobs, now, loanVars, apprVars, qcall>>

UserCreateInsert(c) ==
    /\ ucalls[c].op = "createUser" /\ ucalls[c].pc = "insert"
    /\ LET row == NewUser(ucalls[c].email, ucalls[c].role, ucalls[c].status) IN
       /\ users' = Append(users, row)
       /\ ucalls' = [ucalls EXCEPT ![c] =
             URunning("createUser",
                      IF row.role = "user" THEN "token" ELSE "enqueue",
                      Len(users) + 1, NoText, NoText, NoText)]
    /\ UNCHANGED <<jobs, now, loanVars, apprVars, qcall>>

\* update(users).set({authToken, tokenExpiresAt}) for a user of role 'user'
UserCreateToken(c) ==
    /\ ucalls[c].op = "createUser" /\ ucalls[c].pc = "token"
    /\ users' = [users EXCEPT ![ucalls[c].userId].authToken = TRUE]
    /\ ucalls' = [ucalls EXCEPT ![c].pc = "enqueue"]
    /\ UNCHANGED <<jobs, now, loanVars, apprVars, qcall>>

\* -------------------------- UsersService.activateUser / suspendUser
\* op is "activateUser" or "suspendUser"
StatusBegin(c, op, id) ==
    /\ UFree(c)
    /\ Len(jobs) < MaxJobs
    /\ ucalls' = [ucalls EXCEPT ![c] =
          IF id \notin UserIds THEN UDone(op, id, FALSE, "NotFound")
          ELSE IF users[id].status = TargetStatus(op)
               THEN UDone(op, id, FALSE, "InvalidState")
               ELSE URunning(op, "write", id, NoText, NoText, NoText)]
    /\ UNCHANGED <<users, jobs, now, loanVars, apprVars, qcall>>

StatusWrite(c) ==
    /\ ucalls[c].op \in {"activateUser", "suspendUser"}
    /\ ucalls[c].pc = "write"
    /\ users' = [users EXCEPT ![ucalls[c].userId].status =
                                 TargetStatus(ucalls[c].op)]
    /\ ucalls' = [ucalls EXCEPT ![c].pc = "enqueue"]
    /\ UNCHANGED <<jobs, now, loanVars, apprVars, qcall>>

\* ------------- try { await queueService.send...() } catch { console.error }
\* the queue accepts the job
EnqueueOk(c) ==
    /\ jobs' = Append(jobs, JobOf(ucalls[c].op, ucalls[c].userId))
    /\ ucalls' = [ucalls EXCEPT ![c] =
                     UDone(ucalls[c].op, ucalls[c].userId, FALSE, "ok")]

\* an enqueue failure that escapes the operation
EnqueueThrows_Propagates(c) ==
    /\ UNCHANGED jobs
    /\ ucalls' = [ucalls EXCEPT ![c] =
                     UDone(ucalls[c].op, ucalls[c].userId, TRUE, "QueueError")]

\* the queue call throws; the catch block logs and the operation goes on
EnqueueThrows(c) ==
    /\ UNCHANGED jobs
    /\ ucalls' = [ucalls EXCEPT ![c] =
                     UDone(ucalls[c].op, ucalls[c].userId, TRUE, "ok")]

UserEnqueue(c) ==
    /\ ucalls[c].pc = "enqueue"
    /\ (EnqueueOk(c) \/ EnqueueThrows(c))
    /\ UNCHANGED <<users, now, loanVars, apprVars, qcall>>

\* ------------------------------------- QueueService / MockQueueService
\* One caller makes the same call on a QueueService whose Redis is up and on
\* a MockQueueService; jobs is what the QueueService's queues hold.  An
\* answer is the shape of what the call returns ("job", "stats", "void"),
\* "Error" for a throw of the method and "TypeError" for a call of a method
\* the object does not have.

\* the enqueue methods of QueueService and the name of the job each adds
QueueServiceSenders ==
    [sendWelcomeEmail                 |-> "welcome-email",
     sendLoanConfirmation             |-> "loan-confirmation",
     scheduleOverdueReminder          |-> "overdue-reminder",
     sendReturnConfirmation           |-> "return-confirmation",
     sendBookAvailableNotification    |-> "book-available",
     sendApprovalDecisionNotification |-> "approval-decision",
     sendAccountStatusNotification    |-> "account-status",
     processApprovalRequest           |-> "process-approval",
     sendApprovalNotification         |-> "send-approval-notification"]

\* the enqueue methods of MockQueueService
MockQueueServiceSenders ==
    [sendWelcomeEmail                 |-> "welcome-email",
     sendLoanConfirmation             |-> "loan-confirmation",
     scheduleOverdueReminder          |-> "overdue-reminder",
     sendReturnConfirmation           |-> "return-confirmation",
     sendBookAvailableNotification    |-> "book-available",
     sendApprovalDecisionNotification |-> "approval-decision",
     sendAccountStatusNotification    |-> "account-status",
     processApproval                  |-> "process-approval"]

\* the management methods, which both classes declare
ManagementMethods ==
    {"getQueueStats", "retryJob", "removeJob", "cleanCompletedJobs",
     "cleanFailedJobs"}

QueueServiceMethods == DOMAIN QueueServiceSenders \cup ManagementMethods

MockQueueServiceMethods ==
    DOMAIN MockQueueServiceSenders \cup ManagementMethods

\* getQueueByName: the names that have a queue
QueueNames == {"notifications", "approvals", "maintenance"}

\* the queue a job of this name is added to
QueueOf(type) ==
    IF type \in {"process-approval", "send-approval-notification"}
    THEN "approvals" ELSE "notifications"

\* queue.getJob(jobId) of the queue called queueName
GetJob(queueName, jobId) ==
    IF /\ jobId \in 1..Len(jobs)
       /\ ~jobs[jobId].removed
       /\ QueueOf(jobs[jobId].type) = queueName
    THEN jobId ELSE NULL

\* a call of an enqueue method: queue.add(...) / createMockJob(...)
QueueSend(m) ==
    /\ Len(jobs) < MaxJobs
    /\ qcall' = [method |-> m,
                 real |-> IF m \in DOMAIN QueueServiceSenders
                          THEN "job" ELSE "TypeError",
                 mock |-> IF m \in DOMAIN MockQueueServiceSenders
                          THEN "job" ELSE "TypeError"]
    /\ jobs' = IF m \in DOMAIN QueueServiceSenders
               THEN Append(jobs, NewJob(QueueServiceSenders[m], 1, NoText))
               ELSE jobs
    /\ UNCHANGED <<users, ucalls, now, loanVars, apprVars>>

QueueStats ==
    /\ qcall' = [method |-> "getQueueStats", real |-> "stats",
                 mock |-> "stats"]
    /\ UNCHANGED <<users, jobs, ucalls, now, loanVars, apprVars>>

\* job.retry() is BullMQ's: it may move the job back to waiting or throw
QueueRetry(queueName, jobId) ==
    /\ \E answer \in IF queueName \in QueueNames
                          /\ GetJob(queueName, jobId) # NULL
                       THEN {"job", "Error"} ELSE {"Error"} :
          qcall' = [method |-> "retryJob", real |-> answer, mock |-> "job"]
    /\ UNCHANGED <<users, jobs, ucalls, now, loanVars, apprVars>>

QueueRemove(queueName, jobId) ==
    /\ qcall' = [method |-> "removeJob",
                 real |-> IF queueName \in QueueNames
                          THEN "void" ELSE "Error",
                 mock |-> "void"]
    /\ jobs' = IF GetJob(queueName, jobId) # NULL
               THEN [jobs EXCEPT ![jobId].removed = TRUE] ELSE jobs
    /\ UNCHANGED <<users, ucalls, now, loanVars, apprVars>>

\* cleanCompletedJobs / cleanFailedJobs: no worker runs here, so no job is
\* completed or failed and queue.clean finds nothing to drop
QueueClean(m, queueName) ==
    /\ qcall' = [method |-> m,
                 real |-> IF queueName \in QueueNames
                          THEN "void" ELSE "Error",
                 mock |-> "void"]
    /\ UNCHANGED <<users, jobs, ucalls, now, loanVars, apprVars>>

\* ------------------------------------------------------- specifications
Init == InitLoan /\ InitAppr /\ InitUser /\ now = 1

\* LoansService: create, returnBook, update, remove
LoanStep(c) ==
    \/ \E b \in BookIds \cup {MissingBook}, due \in DueDates :
          CreateBegin(c, b, due)
    \/ CreateTxn(c)
    \/ \E id \in 1..MaxLoans : ReturnBegin(c, id)
    \/ ReturnTxn(c)
    \/ \E id \in 1..MaxLoans, b \in UpdateLoanDto :
          UpdateBegin(c, id, b)
    \/ UpdateFindBook(c)
    \/ UpdateTxn(c)
    \/ UpdateWrite(c)
    \/ \E id \in 1..MaxLoans : RemoveBegin(c, id)
    \/ RemoveWrite(c)

\* BooksService.remove
BookStep(c) ==
    \/ \E b \in BookIds \cup {MissingBook} : RemoveBookBegin(c, b)
    \/ RemoveBookFindLoans(c)
    \/ RemoveBookWrite(c)

ApprStep(c) ==
    \/ \E caller \in Accounts, t \in RequestTypes :
          \* the controller overwrites the userId a non-admin sends
          \E u \in IF IsAdmin(caller) THEN Users ELSE {caller} :
              Submit(c, caller, u, t, NULL, "d1")
    \/ \E op \in {"approve", "reject"}, caller \in Accounts,
          id \in 1..MaxRequests, n \in AdminNotes :
          \* every decision comes with a note
          DecideBegin(c, op, caller, id, n)
    \/ DecideWrite(c)
    \/ \E caller \in Users, s \in SuppliedStatus :
          SubmitRefused(c, caller, s)
    \/ \E caller \in Accounts, id \in 1..MaxRequests,
          dto \in UpdateApprovalRequestDto :
          OwnerBegin(c, "update", caller, id, dto.userId, dto.requestData)
    \/ \E caller \in Accounts, id \in 1..MaxRequests :
          OwnerBegin(c, "remove", caller, id, NULL, NoText)
    \/ OwnerFind(c)
    \/ UpdateRequestWrite(c)
    \/ RemoveRequestWrite(c)

\* BooksService: create, update
CatalogStep(c) ==
    \/ \E dto \in CreateBookDto : BookCreateBegin(c, dto)
    \/ BookCreateInsert(c)
    \/ \E b \in DOMAIN books \cup {MissingBook}, dto \in PatchBodies :
          BookUpdateBegin(c, b, dto)
    \/ BookUpdateValidate(c)
    \/ BookUpdateWrite(c)

UserStep(c) ==
    \/ \E e \in Emails, r \in {NoText, "admin"}, st \in {NoText, "active"} :
          UserCreateBegin(c, e, r, st)
    \/ UserCreateInsert(c)
    \/ UserCreateToken(c)
    \/ \E op \in {"activateUser", "suspendUser"}, id \in 1..MaxAccounts :
          StatusBegin(c, op, id)
    \/ StatusWrite(c)
    \/ UserEnqueue(c)

\* LoansService calls that interleave at every await
NextLoanRace == \E c \in Calls : LoanStep(c)

SpecLoanRace == Init /\ [][NextLoanRace]_vars

\* one caller of the two queue services
QueueStep ==
    \/ \E m \in DOMAIN QueueServiceSenders \cup DOMAIN MockQueueServiceSenders :
          QueueSend(m)
    \/ QueueStats
    \/ \E q \in QueueNames \cup {"other"}, id \in 1..MaxJobs :
          QueueRetry(q, id) \/ QueueRemove(q, id)
    \/ \E m \in {"cleanCompletedJobs", "cleanFailedJobs"},
          q \in QueueNames \cup {"other"} : QueueClean(m, q)

\* the whole system: calls interleave at every await
Next ==
    \/ Tick
    \/ \E c \in Calls : LoanStep(c) \/ BookStep(c) \/ CatalogStep(c)
    \/ \E c \in ACalls : ApprStep(c)
    \/ \E c \in Calls : UserStep(c)
    \/ QueueStep


Spec == Init /\ [][Next]_vars

\* LoansService, one call at a time, at one reading of the clock
NextLoanSeq == LoanStep(1)

SpecLoanSeq == Init /\ [][NextLoanSeq]_vars

\* the loan engine (LoansService and BooksService.remove), one call at a time
NextEngineSeq == Tick \/ LoanStep(1) \/ BookStep(1)

SpecEngineSeq == Init /\ [][NextEngineSeq]_vars

\* borrow, returnBook and BooksService.remove, one call at a time
NextShelfSeq ==
    \/ \E b \in BookIds \cup {MissingBook}, due \in DueDates :
          CreateBegin(1, b, due)
    \/ CreateTxn(1)
    \/ \E id \in 1..MaxLoans : ReturnBegin(1, id)
    \/ ReturnTxn(1)
    \/ BookStep(1)

SpecShelfSeq == Init /\ [][NextShelfSeq]_vars

\* borrow and returnBook, one call at a time, while the clock runs
NextDueSeq ==
    \/ Tick
    \/ \E b \in BookIds, due \in DueDates : CreateBegin(1, b, due)
    \/ CreateTxn(1)
    \/ \E id \in 1..MaxLoans : ReturnBegin(1, id)
    \/ ReturnTxn(1)

SpecDueSeq == Init /\ [][NextDueSeq]_vars

NextBorrow ==
    \E c \in Calls :
        \/ \E b \in BookIds, due \in DueDates : CreateBegin(c, b, due)
        \/ CreateTxn(c)

\* concurrent borrowers
SpecBorrow == Init /\ [][NextBorrow]_vars

\* catalog management, one call at a time
NextCatalogSeq == CatalogStep(1)

SpecCatalogSeq == Init /\ [][NextCatalogSeq]_vars

\* the approval workflow, one call at a time
NextApprSeq == ApprStep(1)

\* the loan engine stays idle over an empty catalog
InitApprOnly == Init /\ \A b \in BookIds : books[b].totalCopies = 0

SpecApprSeq == InitApprOnly /\ [][NextApprSeq]_vars

\* UsersService, one call at a time
NextUserSeq == UserStep(1)

SpecUserSeq == InitApprOnly /\ [][NextUserSeq]_vars

\* approval-request calls that interleave at every await
NextApprRace == \E c \in ACalls : ApprStep(c)

SpecApprRace == InitApprOnly /\ [][NextApprRace]_vars

\* the queue services alone
NextQueue == QueueStep

SpecQueue == InitApprOnly /\ [][NextQueue]_vars

\* ================================================================ claims
\* a step in which call c of the loan engine completes operation op
Finishes(c, op) ==
    calls'[c] # calls[c] /\ calls'[c].op = op /\ calls'[c].pc = "done"

\* a step in which call c of the loan engine starts operation op
Starts(c, op) ==
    Free(c) /\ calls'[c] # calls[c] /\ calls'[c].op = op

LoansOf(b) == {i \in LoanIds : loans[i].bookId = b}

\* C1: after any sequence of borrow, returnBook, reassignBook, deleteLoan
\* and removeBook calls, every book has 0 <= copiesAvailable <= totalCopies.
C1_CopiesWithinTotal ==
    \A b \in BookIds :
        /\ 0 <= books[b].copiesAvailable
        /\ books[b].copiesAvailable <= books[b].totalCopies

\* C2: of two interleaved borrows of a book with one available copy, at
\* most one creates an active loan, and copiesAvailable never drops below 0.
C2_NoDoubleAllocation ==
    \A b \in BookIds :
        books[b].totalCopies = 1 =>
            /\ Cardinality(ActiveLoansOf(b)) <= 1
            /\ books[b].copiesAvailable >= 0

\* C3: a book stocked with N available copies is borrowed successfully at
\* most N times, and a borrow fails with ResourceExhausted only once all N
\* borrows have succeeded, copiesAvailable being 0.
C3_BorrowExactlyN ==
    \A b \in BookIds :
        /\ Cardinality(LoansOf(b)) <= books[b].totalCopies
        /\ \A c \in Calls :
              calls[c] = Done("create", NULL, b, "ResourceExhausted") =>
                  /\ Cardinality(LoansOf(b)) = books[b].totalCopies
                  /\ books[b].copiesAvailable = 0

\* C4: borrow is all-or-nothing: a successful borrow appends exactly one
\* loan with isActive = true and returnedAt absent and takes exactly 1 from
\* the book's copiesAvailable; a failed borrow leaves loans and books as
\* they were.
C4_BorrowAllOrNothing ==
    [][\A c \in Calls :
          Finishes(c, "create") =>
              IF calls'[c].result = "ok"
              THEN /\ loans' = Append(loans, [bookId     |-> calls'[c].bookId,
                                              isActive   |-> TRUE,
                                              returnedAt |-> NULL,
                                              borrowedAt |-> now,
                                              dueDate    |-> calls[c].dueDate])
                   /\ books' = [books EXCEPT
                                  ![calls'[c].bookId].copiesAvailable = @ - 1]
              ELSE loans' = loans /\ books' = books]_vars

\* C4 witness: a borrow of an available book was rolled back, leaving no
\* loan row and the book's count as it was
C4_Witness ==
    /\ calls[1].op = "create" /\ calls[1].result = "TxError"
    /\ calls[1].bookId \in BookIds
    /\ books[calls[1].bookId].copiesAvailable = books[calls[1].bookId].totalCopies
    /\ books[calls[1].bookId].totalCopies > 0
    /\ loans = <<>>

\* C5: a successful returnBook acts on an active loan, makes it inactive
\* with returnedAt set and adds exactly 1 to the copiesAvailable of the
\* loan's book; a returnBook of an already returned loan fails with
\* InvalidState, and a failed returnBook changes no loan and no book.
C5_ReturnOnce ==
    [][\A c \in Calls :
          /\ (Finishes(c, "returnBook") /\ calls'[c].result = "ok") =>
                LET id == calls'[c].loanId IN
                /\ loans[id].isActive
                /\ ~loans'[id].isActive
                /\ loans'[id].returnedAt # NULL
                /\ loans'[id].bookId = loans[id].bookId
                /\ Len(loans') = Len(loans)
                /\ \A j \in LoanIds \ {id} : loans'[j] = loans[j]
                /\ books' = [books EXCEPT
                               ![loans[id].bookId].copiesAvailable = @ + 1]
          /\ (Finishes(c, "returnBook") /\ calls'[c].result # "ok") =>
                loans' = loans /\ books' = books
          /\ (Starts(c, "returnBook") /\ calls'[c].loanId \in LoanIds
              /\ ~loans[calls'[c].loanId].isActive) =>
                calls'[c].result = "InvalidState"]_vars

\* C5 witness: a second returnBook of a returned loan has failed
C5_Witness ==
    /\ calls[1].op = "returnBook" /\ calls[1].result = "InvalidState"
    /\ ~loans[calls[1].loanId].isActive
    /\ loans[calls[1].loanId].returnedAt # NULL

\* C6: a reassignment of a loan from book A to another book B adds 1 to
\* A.copiesAvailable, takes 1 from B.copiesAvailable and sets the loan's
\* bookId to B in one step, or fails and changes none of them; with
\* B.copiesAvailable = 0 it fails.
C6_ReassignAtomic ==
    [][\A c \in Calls :
          /\ (Starts(c, "update") /\ calls'[c].loanId \in LoanIds
              /\ ChangesBook(calls'[c].bookId, loans[calls'[c].loanId].bookId)) =>
                /\ calls'[c].pc = "findBook"
                /\ loans' = loans /\ books' = books
          /\ (calls[c].op = "update" /\ calls[c].pc = "findBook"
              /\ calls'[c] # calls[c]) =>
                /\ loans' = loans /\ books' = books
                /\ (calls[c].bookId \in BookIds
                    /\ books[calls[c].bookId].copiesAvailable = 0) =>
                       calls'[c].result = "ResourceExhausted"
          /\ (calls[c].op = "update" /\ calls[c].pc = "txn"
              /\ calls'[c] # calls[c]) =>
                LET id == calls[c].loanId
                    A  == loans[id].bookId
                    B  == calls[c].bookId
                IN  IF calls'[c].result = "ok"
                    THEN /\ A # B
                         /\ books' = [books EXCEPT ![A].copiesAvailable = @ + 1,
                                                   ![B].copiesAvailable = @ - 1]
                         /\ loans' = [loans EXCEPT ![id].bookId = B]
                    ELSE loans' = loans /\ books' = books]_vars

\* C6 witness: a reassignment to a book without available copies has failed
C6_Witness ==
    /\ calls[1].op = "update" /\ calls[1].result = "ResourceExhausted"
    /\ calls[1].loanId \in LoanIds
    /\ \E b \in BookIds \ {loans[calls[1].loanId].bookId} :
          books[b].copiesAvailable = 0

\* C7: every loan has isActive = true exactly when returnedAt is absent.
C7_ActiveIffNotReturned ==
    \A i \in LoanIds : loans[i].isActive <=> loans[i].returnedAt = NULL

\* C7 witness: a returned loan has been soft-deleted
C7_Witness ==
    /\ calls[1].op = "remove" /\ calls[1].result = "ok"
    /\ ~loans[calls[1].loanId].isActive
    /\ loans[calls[1].loanId].returnedAt # NULL

Processed(id) == Exists(id) /\ requests[id].status # "pending"

\* call slot c takes a new request from the controller in this step
AStarts(c) == AFree(c) /\ acalls'[c] # acalls[c]

\* C8: approve or reject of a request that is not pending, once past the
\* admin guard, fails with InvalidState and changes no request, and no step
\* changes the status, adminId or processedAt of a request that is not
\* pending.
C8_DecidedOnce ==
    [][/\ \A c \in ACalls :
             (AStarts(c) /\ acalls'[c].op \in {"approve", "reject"}
              /\ Processed(acalls'[c].reqId)
              /\ acalls'[c].result # "Forbidden") =>
                 /\ acalls'[c].result = "InvalidState"
                 /\ requests' = requests
       /\ \A id \in DOMAIN requests :
             Processed(id) =>
                 /\ id \in DOMAIN requests'
                 /\ requests'[id].status = requests[id].status
                 /\ requests'[id].adminId = requests[id].adminId
                 /\ requests'[id].processedAt = requests[id].processedAt]_vars

\* C8 witness: submit, reject, then an approve that failed
C8_Witness ==
    /\ acalls[1].op = "approve" /\ acalls[1].result = "InvalidState"
    /\ Exists(acalls[1].reqId)
    /\ requests[acalls[1].reqId].status = "rejected"

\* C9: update and delete of a request that is not pending pass the ownership
\* check for the owner and for an admin and then fail with InvalidState,
\* leaving the row present and unchanged; they succeed only on a pending
\* request.
C9_MutableOnlyWhilePending ==
    [][\A c \in ACalls :
          /\ (AStarts(c) /\ acalls'[c].op \in {"update", "remove"}
              /\ Processed(acalls'[c].reqId)
              /\ acalls'[c].result # "Error") =>
                /\ acalls'[c].pc = "find"
                /\ requests' = requests
          /\ (acalls[c].op \in {"update", "remove"} /\ acalls[c].pc = "find"
              /\ acalls'[c] # acalls[c] /\ Processed(acalls[c].reqId)) =>
                /\ acalls'[c].result = "InvalidState"
                /\ requests' = requests
          /\ (acalls[c].op \in {"update", "remove"} /\ acalls[c].pc = "write"
              /\ acalls'[c] # acalls[c] /\ acalls'[c].result = "ok") =>
                /\ Exists(acalls[c].reqId)
                /\ requests[acalls[c].reqId].status = "pending"]_vars

\* C9 witness: a delete of an approved request has failed
C9_Witness ==
    /\ acalls[1].op = "remove" /\ acalls[1].result = "InvalidState"
    /\ Exists(acalls[1].reqId)
    /\ requests[acalls[1].reqId].status = "approved"

\* C10: every approval request has processedAt and adminId absent while it
\* is pending and both present once it is approved or rejected.
C10_ProcessedIffDecided ==
    \A id \in DOMAIN requests :
        IF requests[id].status = "pending"
        THEN requests[id].processedAt = NULL /\ requests[id].adminId = NULL
        ELSE requests[id].processedAt # NULL /\ requests[id].adminId # NULL

\* the values the status column is meant to take
Statuses == {"pending", "approved", "rejected"}

\* C11: a request that a submit creates starts with status pending,
\* whatever the body of the submit carried, and no step leaves a request
\* with a status other than pending, approved or rejected.
C11_SubmitPending ==
    [][/\ \A id \in DOMAIN requests' :
             /\ requests'[id].status \in Statuses
             /\ id \notin DOMAIN requests => requests'[id].status = "pending"
       /\ \A c \in ACalls :
             (AStarts(c) /\ acalls'[c].op = "create") =>
                 IF acalls'[c].result = "ok"
                 THEN /\ acalls'[c].reqId \notin DOMAIN requests
                      /\ requests'[acalls'[c].reqId].status = "pending"
                 ELSE requests' = requests]_vars

\* C11 witness: a submit has created a request, which is pending
C11_Witness ==
    /\ acalls[1].op = "create" /\ acalls[1].result = "ok"
    /\ Exists(acalls[1].reqId)
    /\ requests[acalls[1].reqId].status = "pending"

\* C12: a borrow of a book that does not exist or is inactive fails with
\* NotFound at once and changes no loan and no book.
C12_BorrowNotFound ==
    [][\A c \in Calls :
          (Starts(c, "create")
           /\ (calls'[c].bookId \notin BookIds
               \/ ~books[calls'[c].bookId].isActive)) =>
              /\ calls'[c].result = "NotFound"
              /\ loans' = loans /\ books' = books]_vars

\* C13: a deleteLoan of an active loan fails with InvalidState and changes
\* no loan and no book; a deleteLoan of a loan that is not active goes on to
\* succeed, and its success leaves the loan inactive and every book's
\* copiesAvailable as it was.
C13_DeleteLoanFrame ==
    [][\A c \in Calls :
          /\ (Starts(c, "remove") /\ calls'[c].loanId \in LoanIds) =>
                /\ loans' = loans /\ books' = books
                /\ IF loans[calls'[c].loanId].isActive
                   THEN calls'[c].result = "InvalidState"
                   ELSE calls'[c].pc = "write"
          /\ (calls[c].op = "remove" /\ calls[c].pc = "write"
              /\ calls'[c] # calls[c]) =>
                /\ calls'[c].result = "ok"
                /\ ~loans[calls[c].loanId].isActive
                /\ ~loans'[calls[c].loanId].isActive
                /\ books' = books]_vars

\* C13 witness: a deleteLoan of an active loan has failed
C13_Witness ==
    /\ calls[1].op = "remove" /\ calls[1].result = "InvalidState"
    /\ loans[calls[1].loanId].isActive

C15_DueAfterBorrowed ==
    \A i \in LoanIds : loans[i].dueDate > loans[i].borrowedAt

\* C16: an update whose bookId is the loan's current bookId skips the look
\* at the book's copies and succeeds without changing any book or the
\* loan's bookId, whatever the book's copiesAvailable.
C16_SameBookNoOp ==
    [][\A c \in Calls :
          /\ (Starts(c, "update") /\ calls'[c].loanId \in LoanIds
              /\ calls'[c].bookId = loans[calls'[c].loanId].bookId) =>
                /\ calls'[c].pc = "write"
                /\ books' = books /\ loans' = loans
          /\ (calls[c].op = "update" /\ calls[c].pc = "write"
              /\ calls'[c] # calls[c]) =>
                /\ calls'[c].result = "ok"
                /\ books' = books
                /\ loans'[calls[c].loanId].bookId = loans[calls[c].loanId].bookId]_vars

\* C16 witness: an update to the loan's own book has succeeded while that
\* book had no copy available
C16_Witness ==
    /\ calls[1].op = "update" /\ calls[1].result = "ok"
    /\ calls[1].bookId # NULL
    /\ calls[1].bookId = loans[calls[1].loanId].bookId
    /\ books[calls[1].bookId].copiesAvailable = 0

\* C17: an update or delete of an existing request by a caller who is
\* neither an admin nor the request's userId fails with Forbidden and
\* changes no request.
C17_OwnerOrAdminOnly ==
    [][\A c \in ACalls, op \in {"update", "remove"}, caller \in Users,
          id \in 1..MaxRequests, dto \in UpdateApprovalRequestDto :
          (OwnerBegin(c, op, caller, id, dto.userId, dto.requestData)
           /\ Exists(id) /\ requests[id].userId # caller) =>
              /\ acalls'[c].result = "Forbidden"
              /\ requests' = requests]_vars

\* C18: the enqueue step of a user create, activateUser or suspendUser ends
\* the operation with success and its user, whether the queue accepted the
\* job or threw: the row the operation wrote stays as written, and a throw
\* of the queue leaves no job behind.
C18_EnqueueFailureSwallowed ==
    [][\A c \in Calls :
          (ucalls[c].pc = "enqueue" /\ ucalls'[c] # ucalls[c]) =>
              LET id == ucalls[c].userId IN
              /\ ucalls'[c].pc = "done"
              /\ ucalls'[c].result = "ok"
              /\ ucalls'[c].userId = id
              /\ id \in UserIds
              /\ users' = users
              /\ ucalls[c].op # "createUser" =>
                    users'[id].status = TargetStatus(ucalls[c].op)
              /\ IF ucalls'[c].queueFailed
                 THEN jobs' = jobs
                 ELSE jobs' = Append(jobs, JobOf(ucalls[c].op, id))]_vars

\* C18 witness: an activateUser has succeeded although its enqueue threw
C18_Witness ==
    /\ ucalls[1].op = "activateUser" /\ ucalls[1].result = "ok"
    /\ ucalls[1].queueFailed
    /\ users[ucalls[1].userId].status = "active"
    /\ \A j \in 1..Len(jobs) : jobs[j].type # "account-status"

\* the accepted jobs of one notification type
JobsOfType(type) == {j \in 1..Len(jobs) : jobs[j].type = type}

\* C19: once a borrow has returned its loan, a loan-confirmation job for
\* that loan is in the queue, and the queue holds no loan-confirmation job
\* for a loan that does not exist.
C19_BorrowEnqueuesConfirmation ==
    /\ \A c \in Calls :
          (calls[c].op = "create" /\ calls[c].result = "ok") =>
              \E j \in JobsOfType("loan-confirmation") :
                  jobs[j].loanId = calls[c].loanId
    /\ \A j \in JobsOfType("loan-confirmation") : jobs[j].loanId \in LoanIds

\* C20: once a returnBook has returned its loan, a return-confirmation job
\* for that loan is in the queue, with wasOverdue true exactly when the
\* loan's returnedAt is later than its dueDate.
C20_ReturnEnqueuesOverdueFlag ==
    \A c \in Calls :
        (calls[c].op = "returnBook" /\ calls[c].result = "ok") =>
            \E j \in JobsOfType("return-confirmation") :
                /\ jobs[j].loanId = calls[c].loanId
                /\ jobs[j].wasOverdue =
                      (loans[calls[c].loanId].returnedAt >
                       loans[calls[c].loanId].dueDate)

\* C21: once an approve or reject has succeeded, an approval-decision job
\* addressed to the request's user and carrying the stored status is in the
\* queue.
C21_DecisionEnqueuesNotification ==
    \A c \in ACalls :
        (acalls[c].op \in {"approve", "reject"} /\ acalls[c].result = "ok"
         /\ Exists(acalls[c].reqId)) =>
            \E j \in JobsOfType("approval-decision") :
                /\ jobs[j].userId = requests[acalls[c].reqId].userId
                /\ jobs[j].status = requests[acalls[c].reqId].status

\* C22: BooksService.update leaves the copiesAvailable of every book as it
\* was, whatever body it is given.
C22_UpdateKeepsCopiesAvailable ==
    [][\A c \in Calls :
          Finishes(c, "updateBook") =>
              \A b \in DOMAIN books :
                  books'[b].copiesAvailable = books[b].copiesAvailable]_vars

\* C23: BooksService.create and BooksService.update never leave a book
\* with copiesAvailable > totalCopies: a body that would do so is turned
\* away and the stored books stay as they were.
C23_CatalogWritesKeepInventory ==
    [][\A c \in Calls :
          (Finishes(c, "createBook") \/ Finishes(c, "updateBook")) =>
              \A b \in DOMAIN books' :
                  books'[b].copiesAvailable <= books'[b].totalCopies]_vars

\* C24: every method of QueueService is a method of MockQueueService under
\* the same name, and a call that QueueService answers without a throw
\* gets an answer of the same shape from MockQueueService.
C24_MockSameInterface ==
    (qcall.method \in QueueServiceMethods
     /\ qcall.real \notin {"Error", "TypeError"}) =>
        qcall.mock = qcall.real

\* C25: no step of borrow, returnBook, reassignBook/update or deleteLoan
\* changes, for any book, the sum of its copiesAvailable and the number of
\* active loans that reference it; a reassignBook of a returned loan
\* included.
C25_CopiesConserved ==
    [][\A b \in BookIds :
          books'[b].copiesAvailable
            + Cardinality({i \in 1..Len(loans') :
                             loans'[i].bookId = b /\ loans'[i].isActive})
          = books[b].copiesAvailable + Cardinality(ActiveLoansOf(b))]_vars

\* C26: however returnBook calls on one loan interleave, a returnBook that
\* succeeds finds the loan still active, so at most one of them succeeds and
\* the book's copiesAvailable goes up once.
C26_ReturnOnceUnderRace ==
    [][\A c \in Calls :
          (Finishes(c, "returnBook") /\ calls'[c].result = "ok") =>
              /\ loans[calls'[c].loanId].isActive
              /\ \A b \in BookIds :
                    books'[b].copiesAvailable - books[b].copiesAvailable
                      = IF b = loans[calls'[c].loanId].bookId THEN 1 ELSE 0]_vars

\* C27: however approve and reject calls on one pending request interleave,
\* no two of them succeed.
C27_DecideOnceUnderRace ==
    \A c1, c2 \in ACalls :
        (/\ c1 # c2
         /\ acalls[c1].op \in {"approve", "reject"}
         /\ acalls[c2].op \in {"approve", "reject"}
         /\ acalls[c1].result = "ok" /\ acalls[c2].result = "ok") =>
            acalls[c1].reqId # acalls[c2].reqId

\* C28: however an owner's update or delete interleaves with an admin's
\* approve or reject, no step deletes a request that is approved or
\* rejected, or changes its requestData, requestType, resourceId or userId.
C28_DecidedRowFrozenUnderRace ==
    [][\A id \in DOMAIN requests :
          Processed(id) =>
              /\ id \in DOMAIN requests'
              /\ requests'[id].requestData = requests[id].requestData
              /\ requests'[id].requestType = requests[id].requestType
              /\ requests'[id].resourceId = requests[id].resourceId
              /\ requests'[id].userId = requests[id].userId]_vars

\* C29: however a reassignBook to a book B with one copy available
\* interleaves with a borrow of B or another reassignBook to B, a
\* reassignment that succeeds finds a copy of B available and leaves
\* B.copiesAvailable >= 0.
C29_ReassignUnderRace ==
    [][\A c \in Calls :
          (calls[c].op = "update" /\ calls[c].pc = "txn"
           /\ Finishes(c, "update") /\ calls'[c].result = "ok") =>
              /\ books[calls[c].bookId].copiesAvailable > 0
              /\ books'[calls[c].bookId].copiesAvailable >= 0]_vars

\* C30: in every reachable state no active loan references a book that is
\* not active.
C30_NoActiveLoanOnInactiveBook ==
    \A i \in LoanIds :
        (loans[i].isActive /\ loans[i].bookId \in DOMAIN books) =>
            books[loans[i].bookId].isActive

====
